---- MODULE Spec2Model ----
(***************************************************************************)
(* FPL team analyzer, netlify/functions/analyze-team.js.                   *)
(*                                                                         *)
(* Number representation.  The JavaScript numbers of the program are       *)
(* modelled as scaled integers:                                            *)
(*   - form, price, bank, team value: tenths (form "1.0" is 10, a          *)
(*     now_cost of 55 is the price 5.5);                                   *)
(*   - a raw average difficulty sum/len, len in 1..5: sixtieths            *)
(*     (4.5 is 270), exact because every len divides 60;                   *)
(*   - a rating score 2*form + 2*(5 - avg): six-hundredths.                *)
(* The form values of the inputs are multiples of 0.5, for which the       *)
(* double arithmetic of the score formulas is exact.  A number that can be *)
(* NaN (bank, team value) is a record [nan, v].                            *)
(* A Map key is tagged with its JavaScript type: Map.get compares with     *)
(* SameValueZero, under which a number never equals a string.              *)
(***************************************************************************)
EXTENDS Integers, Sequences, FiniteSets, TLC

VARIABLES
    pc,            \* position of the run: the handler's await points, or the call of a helper
    event,         \* the request: [httpMethod, teamId]
    fetches,       \* state of each upstream fetch: idle, pending, resolved, rejected
    issued,        \* the fetches issued so far, in order, each with its arguments
    bootstrapData, \* body of the bootstrap response
    teamData,      \* body of the manager entry response
    fixturesData,  \* body of the fixtures response (allFixtures of getNextFixtures)
    picksData,     \* body of the picks response
    currentGW,
    playersMap,
    teamFixtures,
    squad,
    bank,
    transfers,
    captains,
    insights,
    response       \* what the handler returned: [statusCode, body]

vars == << pc, event, fetches, issued, bootstrapData, teamData, fixturesData,
           picksData, currentGW, playersMap, teamFixtures, squad, bank,
           transfers, captains, insights, response >>

-----------------------------------------------------------------------------
(* Bounds of the model *)

\* longest squad handed to the transfer suggester and the captaincy ranker
MaxSquad == 4
\* gameweeks of the regular schedule in the fixture list
MaxSeason == 10
\* fixtures outside the regular schedule (doubles, rearranged games)
MaxExtra == 2
\* largest number of squad members of one fixture class given to the insight generator
MaxCount == 5

-----------------------------------------------------------------------------
(* Program constants *)

FixtureWindow == 8      \* f.event <= currentGW + 8
FixturesPerTeam == 8    \* .slice(0, 8)
SquadFixtures == 5      \* .slice(0, 5)
WeakCandidates == 3     \* .slice(0, 3)
TopTransfers == 2       \* transfers.slice(0, 2)
TopCaptains == 3        \* .slice(0, 3)
ConfidenceCap == 95     \* Math.min(95, ...)

-----------------------------------------------------------------------------
(* JavaScript values *)

Str(s) == << "string", s >>
Num(n) == << "number", n >>
JsNum(n) == [nan |-> FALSE, v |-> n]
JsNaN == [nan |-> TRUE, v |-> 0]
None == << >>           \* an unset variable of the run

Min(a, b) == IF a <= b THEN a ELSE b

\* Array.prototype.slice(0, n)
Take(s, n) == SubSeq(s, 1, Min(n, Len(s)))

\* Array.prototype.sort((a, b) => key(a) - key(b)), key[i] being the key of
\* s[i]: ascending and stable
SortBy(s, key) ==
    LET n == Len(s)
        rank(i) == 1 + Cardinality({ j \in 1..n :
                        \/ key[j] < key[i]
                        \/ (key[j] = key[i] /\ j < i) })
    IN  [p \in 1..n |-> s[CHOOSE i \in 1..n : rank(i) = p]]

\* new Map() filled by list.forEach(x => map.set(x.id, ...)): the entries in
\* insertion order; a repeated key keeps its first place and its last value
MapFromList(list) ==
    LET n == Len(list)
        first(i) == \A j \in 1..(i-1) : list[j].id # list[i].id
        last(i) == CHOOSE j \in 1..n :
                      /\ list[j].id = list[i].id
                      /\ \A k \in (j+1)..n : list[k].id # list[i].id
        firsts == SelectSeq([i \in 1..n |-> i], first)
    IN  [p \in 1..Len(firsts) |-> list[last(firsts[p])]]

\* Map.has / Map.get on a map keyed by id
HasId(map, id) == \E i \in 1..Len(map) : map[i].id = id
GetById(map, id) == map[CHOOSE i \in 1..Len(map) : map[i].id = id]

-----------------------------------------------------------------------------
(* Helper functions of analyze-team.js *)

getPosition(elementType) ==
    CASE elementType = 1 -> "GK"
      [] elementType = 2 -> "DEF"
      [] elementType = 3 -> "MID"
      [] elementType = 4 -> "FWD"
      [] OTHER -> "UNK"

\* `${isHome ? '' : '@'}${opponent}`, as the sequence of its parts
OpponentLabel(isHome, opponent) ==
    (IF isHome THEN << >> ELSE << "@" >>) \o << opponent >>

\* teamsMap.get(id)?.short_name inside a template literal
ShortNameOf(teamsMap, id) ==
    IF HasId(teamsMap, id) THEN GetById(teamsMap, id).short_name ELSE "undefined"

\* the window ending one gameweek early
UpcomingExclusive(f, gw) == f.event >= gw /\ f.event < gw + FixtureWindow

\* f.event >= currentGW && f.event <= currentGW + 8; a null event (an
\* unscheduled fixture) is the event 0 of the model, as the comparison coerces it
Upcoming(f, gw) == f.event >= gw /\ f.event <= gw + FixtureWindow

UpcomingFixtures(allFixtures, gw) ==
    LET inWindow(f) == Upcoming(f, gw)
        kept == SelectSeq(allFixtures, inWindow)
    IN  SortBy(kept, [i \in 1..Len(kept) |-> kept[i].event])

\* the fixtures of one team: lines 152-168
ProjectTeam(upcomingFixtures, team, teamsMap) ==
    LET plays(f) == f.team_h = team.id \/ f.team_a = team.id
        annotate(f) ==
            LET isHome == f.team_h = team.id
                opponent == IF isHome THEN ShortNameOf(teamsMap, f.team_a)
                                      ELSE ShortNameOf(teamsMap, f.team_h)
                difficulty == IF isHome THEN f.team_h_difficulty
                                        ELSE f.team_a_difficulty
            IN  [ gameweek |-> f.event,
                  opponent |-> OpponentLabel(isHome, opponent),
                  difficulty |-> difficulty,
                  isHome |-> isHome ]
        own == SelectSeq(upcomingFixtures, plays)
    IN  Take([i \in 1..Len(own) |-> annotate(own[i])], FixturesPerTeam)

\* a Map from short name to projected fixtures; of two teams with one short
\* name the later set() wins
getNextFixtures(allFixtures, gw, teamsMap) ==
    LET upcomingFixtures == UpcomingFixtures(allFixtures, gw)
        n == Len(teamsMap)
        keys == { Str(teamsMap[i].short_name) : i \in 1..n }
        lastOf(k) == CHOOSE i \in 1..n :
                        /\ Str(teamsMap[i].short_name) = k
                        /\ \A j \in (i+1)..n : Str(teamsMap[j].short_name) # k
    IN  [ k \in keys |-> ProjectTeam(upcomingFixtures, teamsMap[lastOf(k)], teamsMap) ]

\* teamFixtures.get(key)?.slice(0, n) || []
FixturesFor(tf, key, n) == IF key \in DOMAIN tf THEN Take(tf[key], n) ELSE << >>

RECURSIVE SumDifficulty(_)
SumDifficulty(fixtures) ==
    IF fixtures = << >> THEN 0
    ELSE Head(fixtures).difficulty + SumDifficulty(Tail(fixtures))

\* fixtures.reduce((sum, f) => sum + f.difficulty, 0) / fixtures.length || 3,
\* in sixtieths: 0/0 is NaN and NaN || 3 is 3, as is 0 || 3
AvgDifficulty(fixtures) ==
    LET sum == SumDifficulty(fixtures)
        len == Len(fixtures)
    IN  IF len = 0 \/ sum = 0 THEN 180 ELSE (60 * sum) \div len

\* avgDifficulty.toFixed(1): sixtieths to tenths, a tie (x.25, x.75, exact in
\* binary) rounded up
ToFixed1(avg60) == (avg60 + 3) \div 6

\* totalScore of getRating, in six-hundredths
RatingScore(form, avg60) == (form * 2) * 60 + ((300 - avg60) * 2) * 10

getRating(form, avg60) ==
    LET totalScore == RatingScore(form, avg60)
    IN  IF totalScore >= 14 * 600 THEN "Excellent"
        ELSE IF totalScore >= 10 * 600 THEN "Good"
        ELSE IF totalScore >= 6 * 600 THEN "Average"
        ELSE "Poor"

getRatingClass(form, avg60) ==
    LET rating == getRating(form, avg60)
    IN  CASE rating = "Excellent" -> "excellent"
          [] rating = "Good" -> "good"
          [] rating = "Average" -> "average"
          [] OTHER -> "poor"

-----------------------------------------------------------------------------
(* Lookups and the squad analyzer: handler, lines 57-98 *)

\* bootstrapData.teams.find(t => t.id === player.team)?.short_name || 'UNK'
TeamShortName(teams, id) ==
    IF \E i \in 1..Len(teams) : teams[i].id = id
    THEN teams[CHOOSE i \in 1..Len(teams) :
                 /\ teams[i].id = id
                 /\ \A j \in 1..(i-1) : teams[j].id # id].short_name
    ELSE "UNK"

\* playersMap: each catalogue player with its team replaced by the short name
BuildPlayersMap(elements, teams) ==
    MapFromList([ i \in 1..Len(elements) |->
        [ elements[i] EXCEPT !.team = Str(TeamShortName(teams, elements[i].team)) ] ])

\* the body of picksData.picks.map(...) for one pick whose player is known
AnalyzePick(pick, pm, tf) ==
    LET player == GetById(pm, pick.element)
        fixtures == FixturesFor(tf, player.team_code, SquadFixtures)
        avgDifficulty == AvgDifficulty(fixtures)
    IN  [ id |-> player.id,
          name |-> player.web_name,
          team |-> player.team,
          position |-> getPosition(player.element_type),
          price |-> player.now_cost,
          form |-> player.form,
          fixtures |-> [ i \in 1..Len(fixtures) |-> fixtures[i].opponent ],
          avgDifficulty |-> ToFixed1(avgDifficulty),
          rating |-> getRating(player.form, avgDifficulty),
          ratingClass |-> getRatingClass(player.form, avgDifficulty) ]

\* playersMap.get(pick.element) is undefined: player.team_code throws a TypeError
AnalyzeThrows(picks, pm) == \E i \in 1..Len(picks) : ~HasId(pm, picks[i].element)

AnalyzeSquad(picks, pm, tf) == [ i \in 1..Len(picks) |-> AnalyzePick(picks[i], pm, tf) ]

-----------------------------------------------------------------------------
(* Transfer suggester: findTransferOpportunities, lines 198-260 *)

\* The (price, bank) pairs, in tenths, of the inputs of this model whose double
\* sum price/10 + bank/10 lies below the double (price + bank)/10.
RoundedBelow == { << 46, 3 >> }

\* p.now_cost / 10 <= playerOut.price + bank, in doubles: false when bank is NaN
PriceWithin(cost, price, bk) ==
    /\ ~bk.nan
    /\ \/ cost < price + bk.v
       \/ cost = price + bk.v /\ << price, bk.v >> \notin RoundedBelow

\* parseFloat(p.form) < 3 || parseFloat(p.avgDifficulty) > 3.5
IsWeak(p) == p.form < 30 \/ p.avgDifficulty > 35

\* every weak member kept: the sort without the slice(0, 3)
TransferOutCandidatesAll(sq) ==
    LET weak == SelectSeq(sq, IsWeak)
    IN  SortBy(weak, [ i \in 1..Len(weak) |-> weak[i].form ])

TransferOutCandidates(sq) ==
    LET weak == SelectSeq(sq, IsWeak)
    IN  Take(SortBy(weak, [ i \in 1..Len(weak) |-> weak[i].form ]), WeakCandidates)

\* the filter without its last line, the check against the squad
IsAlternativeInSquadToo(p, playerOut, sq, bk) ==
    /\ getPosition(p.element_type) = playerOut.position
    /\ PriceWithin(p.now_cost, playerOut.price, bk)
    /\ p.form > playerOut.form
    /\ p.id # playerOut.id

\* the filter of lines 210-216
IsAlternative(p, playerOut, sq, bk) ==
    /\ getPosition(p.element_type) = playerOut.position
    /\ PriceWithin(p.now_cost, playerOut.price, bk)
    /\ p.form > playerOut.form
    /\ p.id # playerOut.id
    /\ ~ \E i \in 1..Len(sq) : sq[i].id = p.id

\* parseFloat(form) * 2 - avgDifficulty, in six-hundredths
AlternativeScore(p) == (p.form * 2) * 60 - p.avgDifficulty * 10

\* lines 209-227: the best alternative, as a list of at most one
Alternatives(playerOut, sq, pm, tf, bk) ==
    LET fits(p) == IsAlternative(p, playerOut, sq, bk)
        found == SelectSeq(pm, fits)
        withFixtures(p) ==
            LET fixtures == FixturesFor(tf, p.team, SquadFixtures)
            IN  [ id |-> p.id, web_name |-> p.web_name, team |-> p.team,
                  form |-> p.form, now_cost |-> p.now_cost,
                  avgDifficulty |-> AvgDifficulty(fixtures),
                  fixtures |-> fixtures ]
        scored == [ i \in 1..Len(found) |-> withFixtures(found[i]) ]
        \* sort((a, b) => scoreB - scoreA): stable, descending by score
    IN  Take(SortBy(scored, [ i \in 1..Len(scored) |-> 0 - AlternativeScore(scored[i]) ]), 1)

\* lines 229-256: the recommendation pushed for one outgoing player
Transfer(playerOut, playerIn) ==
    [ playerOut |-> [ name |-> playerOut.name, team |-> playerOut.team,
                      form |-> playerOut.form, price |-> playerOut.price,
                      fixtures |-> playerOut.fixtures ],
      playerIn |-> [ name |-> playerIn.web_name, team |-> playerIn.team,
                     form |-> playerIn.form, price |-> playerIn.now_cost,
                     fixtures |-> [ i \in 1..Len(playerIn.fixtures) |->
                                      playerIn.fixtures[i].opponent ] ],
      cost |-> playerIn.now_cost - playerOut.price,
      projectedPoints |-> (playerIn.form - playerOut.form) * 5 ]

findTransferOpportunities(sq, pm, tf, bk) ==
    LET transferOutCandidates == TransferOutCandidates(sq)
        n == Len(transferOutCandidates)
        pushed(i) ==
            LET playerOut == transferOutCandidates[i]
                alternatives == Alternatives(playerOut, sq, pm, tf, bk)
            IN  IF Len(alternatives) > 0
                THEN << Transfer(playerOut, alternatives[1]) >>
                ELSE << >>
        all[i \in 0..n] == IF i = 0 THEN << >> ELSE all[i-1] \o pushed(i)
    IN  Take(all[n], TopTransfers)

-----------------------------------------------------------------------------
(* Captaincy ranker: getCaptainRecommendations, lines 262-290 *)

\* formScore + fixtureScore + homeBonus of one squad member, form in tenths
CaptainScore(player, tf) ==
    LET fixtures == FixturesFor(tf, player.team, 1)
        formScore == player.form
        fixtureScore == IF Len(fixtures) > 0 THEN (6 - fixtures[1].difficulty) * 5 ELSE 0
        homeBonus == IF Len(fixtures) > 0 /\ fixtures[1].isHome THEN 5 ELSE 0
    IN  formScore + fixtureScore + homeBonus

\* the confidence without its cap
ConfidenceUncapped(totalScore) == (12 * totalScore + 5) \div 10

\* Math.min(95, Math.round(totalScore * 1.2)); Math.round rounds a half up,
\* and 1.2 * totalScore never ends in .5
Confidence(totalScore) == Min(ConfidenceCap, (12 * totalScore + 5) \div 10)

CaptainCandidates(sq, tf) ==
    LET scored == [ i \in 1..Len(sq) |->
                      [ name |-> sq[i].name, team |-> sq[i].team,
                        captainScore |-> CaptainScore(sq[i], tf),
                        confidence |-> Confidence(CaptainScore(sq[i], tf)) ] ]
    IN  Take(SortBy(scored, [ i \in 1..Len(scored) |-> 0 - scored[i].captainScore ]),
             TopCaptains)

getCaptainRecommendations(sq, tf) ==
    LET captainCandidates == CaptainCandidates(sq, tf)
    IN  [ idx \in 1..Len(captainCandidates) |->
            [ name |-> << captainCandidates[idx].name, captainCandidates[idx].team >>,
              confidence |-> captainCandidates[idx].confidence,
              reasoning |-> IF idx = 1 THEN "Top form" ELSE "Good form" ] ]

-----------------------------------------------------------------------------
(* Insight generator: generateInsights, lines 292-349 *)

\* the two fixture checks as separate if statements, the else dropped
FixtureInsightNoElse(sq) ==
    LET easy(p) == p.avgDifficulty < 25
        hard(p) == p.avgDifficulty > 35
        easyFixtures == Len(SelectSeq(sq, easy))
        hardFixtures == Len(SelectSeq(sq, hard))
    IN  (IF easyFixtures >= 5
         THEN << [ title |-> "Strong Fixture Run", n |-> easyFixtures ] >>
         ELSE << >>)
        \o (IF hardFixtures >= 5
            THEN << [ title |-> "Difficult Fixtures Ahead", n |-> hardFixtures ] >>
            ELSE << >>)

\* lines 296-311: at most one of the two fixture messages
FixtureInsight(sq) ==
    LET easy(p) == p.avgDifficulty < 25
        hard(p) == p.avgDifficulty > 35
        easyFixtures == Len(SelectSeq(sq, easy))
        hardFixtures == Len(SelectSeq(sq, hard))
    IN  IF easyFixtures >= 5
        THEN << [ title |-> "Strong Fixture Run", n |-> easyFixtures ] >>
        ELSE IF hardFixtures >= 5
        THEN << [ title |-> "Difficult Fixtures Ahead", n |-> hardFixtures ] >>
        ELSE << >>

\* lines 314-321
FormInsight(sq) ==
    LET poor(p) == p.form < 20
        poorForm == Len(SelectSeq(sq, poor))
    IN  IF poorForm >= 3
        THEN << [ title |-> "Form Concerns", n |-> poorForm ] >>
        ELSE << >>

\* lines 324-331: teamValue >= 103 is false of NaN
ValueInsight(td) ==
    LET teamValue == td.last_deadline_value
    IN  IF ~teamValue.nan /\ teamValue.v >= 1030
        THEN << [ title |-> "Strong Team Value", n |-> teamValue.v ] >>
        ELSE << >>

\* the transfer message pushed whether or not transfers were found
TransferInsightNoElse(tr) ==
    (IF Len(tr) > 0
     THEN << [ title |-> "Transfer Opportunities", n |-> Len(tr) ] >>
     ELSE << >>)
    \o << [ title |-> "Team Looking Solid", n |-> 0 ] >>

\* lines 334-346
TransferInsight(tr) ==
    IF Len(tr) > 0
    THEN << [ title |-> "Transfer Opportunities", n |-> Len(tr) ] >>
    ELSE << [ title |-> "Team Looking Solid", n |-> 0 ] >>

\* td is teamData with last_deadline_value / 10 as a number that can be NaN
generateInsights(sq, tr, td) ==
    FixtureInsight(sq) \o FormInsight(sq) \o ValueInsight(td) \o TransferInsight(tr)

-----------------------------------------------------------------------------
(* Upstream data the handler can be answered with *)

Undefined == << "undefined" >>

\* the catalogue's teams: id, short name, and the numeric code that a player
\* carries as team_code
Teams ==
    << [ id |-> 1, short_name |-> "ARS", code |-> 3 ],
       [ id |-> 2, short_name |-> "AVL", code |-> 7 ],
       [ id |-> 3, short_name |-> "BOU", code |-> 91 ] >>

TeamCode(id) == Teams[id].code

\* a catalogue player; web_name is distinct per player and stands for it
Element(id, team, elementType, cost, form) ==
    [ id |-> id, web_name |-> id, team |-> team, team_code |-> Num(TeamCode(team)),
      element_type |-> elementType, now_cost |-> cost, form |-> form ]

\* A catalogue of 17 players.  Player 1 plays for team 1 with the form f;
\* players 2..15 are in good form and play for teams 2 and 3; players 16 and
\* 17 are midfielders like player 1.
Catalogue(f) ==
    [ i \in 1..17 |->
        IF i = 1 THEN Element(1, 1, 3, 60, f)
        ELSE IF i = 16 THEN Element(16, 2, 3, 55, 60)
        ELSE IF i = 17 THEN Element(17, 3, 3, 58, 40)
        ELSE Element(i, 2 + (i % 2), 1 + (i % 4), 50, 50) ]

\* bootstrapData.events: three gameweeks, gameweek c flagged current (none if c = 0)
Events(c) == [ i \in 1..3 |-> [ id |-> i, is_current |-> (i = c) ] ]

\* The regular schedule: one game per gameweek 1..r between teams 1 and 2,
\* at home in turn; team 1 finds it hard (4 at home, 5 away), team 2 easy.
Season(r) ==
    [ g \in 1..r |->
        IF g % 2 = 1
        THEN [ event |-> g, team_h |-> 1, team_a |-> 2,
               team_h_difficulty |-> 4, team_a_difficulty |-> 2 ]
        ELSE [ event |-> g, team_h |-> 2, team_a |-> 1,
               team_h_difficulty |-> 2, team_a_difficulty |-> 5 ] ]

\* the picks of the players 1..n
FirstPicks(n) == [ i \in 1..n |-> [ element |-> i ] ]

\* a JSON object without the fields the handler reads (the body of a
\* non-success status): reading one of them gives undefined
ErrorBody == [ shape |-> "error" ]

BootstrapBodies ==
    { [ shape |-> "expected", events |-> Events(c), elements |-> Catalogue(f),
        teams |-> Teams ] : c \in 0..2, f \in { 10, 45 } }

TeamBodies ==
    { [ shape |-> "expected", last_deadline_bank |-> 0, last_deadline_value |-> 1000 ],
      [ shape |-> "expected", last_deadline_bank |-> 5, last_deadline_value |-> 1030 ] }

FixturesBodies == { [ shape |-> "expected", list |-> Season(r) ] : r \in { 0, 4, 10 } }

PicksBodies ==
    { [ shape |-> "expected", picks |-> FirstPicks(n) ] : n \in { 2, 15 } }
    \cup { [ shape |-> "expected", picks |-> << [ element |-> 99 ] >> ] }

Bodies(api) ==
    CASE api = "bootstrap" -> BootstrapBodies
      [] api = "team" -> TeamBodies
      [] api = "fixtures" -> FixturesBodies
      [] api = "picks" -> PicksBodies

\* How a fetch(...).then(r => r.json()) can end.  node-fetch resolves on every
\* HTTP status; r.json() rejects on a body that is not JSON.
Outcomes == { "ok", "network_error", "unparsable_body",
              "error_status_json", "error_status_unparsable" }

Settles(outcome) == outcome \in { "ok", "error_status_json" }

FirstBatch == { "bootstrap", "team", "fixtures" }
Apis == FirstBatch \cup { "picks" }

Requests ==
    [ httpMethod : { "GET", "OPTIONS" },
      teamId : { Undefined, Str(""), Str("123456") } ]

-----------------------------------------------------------------------------
(* The handler: exports.handler, lines 17-139 *)

Idle == [ state |-> "idle", outcome |-> "none", body |-> ErrorBody ]

Call(api, teamId, gw) == [ api |-> api, teamId |-> teamId, gw |-> gw ]

\* teamId === undefined: the empty string let through
FalsyUndefinedOnly(teamId) == teamId = Undefined

\* !teamId
Falsy(teamId) == teamId = Undefined \/ teamId = Str("")

\* bootstrapData.events.find(e => e.is_current)?.id || 1
CurrentGW(events) ==
    IF \E i \in 1..Len(events) : events[i].is_current
    THEN LET e == events[CHOOSE i \in 1..Len(events) :
                            /\ events[i].is_current
                            /\ \A j \in 1..(i-1) : ~events[j].is_current]
         IN  IF e.id = 0 THEN 1 ELSE e.id
    ELSE 1

\* teamData.last_deadline_bank / 10 and teamData.last_deadline_value / 10:
\* undefined / 10 is NaN
BankOf(td) == IF td.shape = "expected" THEN JsNum(td.last_deadline_bank) ELSE JsNaN
TeamValue(td) ==
    [ last_deadline_value |->
        IF td.shape = "expected" THEN JsNum(td.last_deadline_value) ELSE JsNaN ]

Failure == [ statusCode |-> 500,
             body |-> [ error |-> "Failed to analyze team", message |-> "message" ] ]

Init ==
    /\ pc = "start"
    /\ event \in Requests
    /\ fetches = [ api \in Apis |-> Idle ]
    /\ issued = << >>
    /\ bootstrapData = None
    /\ teamData = None
    /\ fixturesData = None
    /\ picksData = None
    /\ currentGW = 0
    /\ playersMap = None
    /\ teamFixtures = None
    /\ squad = None
    /\ bank = JsNaN
    /\ transfers = None
    /\ captains = None
    /\ insights = None
    /\ response = None

\* lines 27-29
Preflight ==
    /\ pc = "start"
    /\ event.httpMethod = "OPTIONS"
    /\ response' = [ statusCode |-> 200, body |-> [ empty |-> TRUE ] ]
    /\ pc' = "done"
    /\ UNCHANGED << event, fetches, issued, bootstrapData, teamData, fixturesData,
                    picksData, currentGW, playersMap, teamFixtures, squad, bank,
                    transfers, captains, insights >>

\* lines 32-40
MissingTeamId ==
    /\ pc = "start"
    /\ event.httpMethod # "OPTIONS"
    /\ Falsy(event.teamId)
    /\ response' = [ statusCode |-> 400, body |-> [ error |-> "Team ID is required" ] ]
    /\ pc' = "done"
    /\ UNCHANGED << event, fetches, issued, bootstrapData, teamData, fixturesData,
                    picksData, currentGW, playersMap, teamFixtures, squad, bank,
                    transfers, captains, insights >>

\* lines 45-49: the three fetches are issued, then the handler awaits Promise.all
StartBatch ==
    /\ pc = "start"
    /\ event.httpMethod # "OPTIONS"
    /\ ~Falsy(event.teamId)
    /\ issued' = << Call("bootstrap", Undefined, 0),
                    Call("team", event.teamId, 0),
                    Call("fixtures", Undefined, 0) >>
    /\ fetches' = [ api \in Apis |->
                      IF api \in FirstBatch
                      THEN [ state |-> "pending", outcome |-> "none", body |-> ErrorBody ]
                      ELSE fetches[api] ]
    /\ pc' = "batch"
    /\ UNCHANGED << event, bootstrapData, teamData, fixturesData, picksData,
                    currentGW, playersMap, teamFixtures, squad, bank, transfers,
                    captains, insights, response >>

\* one fetch(...).then(r => r.json()) settles
Settle(api) ==
    /\ fetches[api].state = "pending"
    /\ \E outcome \in Outcomes :
         \E body \in (IF outcome = "ok" THEN Bodies(api) ELSE { ErrorBody }) :
            fetches' = [ fetches EXCEPT ![api] =
                [ state |-> IF Settles(outcome) THEN "resolved" ELSE "rejected",
                  outcome |-> outcome,
                  body |-> body ] ]
    /\ UNCHANGED << pc, event, issued, bootstrapData, teamData, fixturesData,
                    picksData, currentGW, playersMap, teamFixtures, squad, bank,
                    transfers, captains, insights, response >>

\* Promise.all rejects with the first rejection; the catch of lines 128-138
BatchRejected ==
    /\ pc = "batch"
    /\ \E api \in FirstBatch : fetches[api].state = "rejected"
    /\ response' = Failure
    /\ pc' = "done"
    /\ UNCHANGED << event, fetches, issued, bootstrapData, teamData, fixturesData,
                    picksData, currentGW, playersMap, teamFixtures, squad, bank,
                    transfers, captains, insights >>

\* lines 45-55: Promise.all resolves; the current gameweek is read and the
\* picks fetch issued, or reading bootstrapData.events.find throws
BatchResolved ==
    /\ pc = "batch"
    /\ \A api \in FirstBatch : fetches[api].state = "resolved"
    /\ bootstrapData' = fetches["bootstrap"].body
    /\ teamData' = fetches["team"].body
    /\ fixturesData' = fetches["fixtures"].body
    /\ IF bootstrapData'.shape = "expected"
       THEN /\ currentGW' = CurrentGW(bootstrapData'.events)
            /\ issued' = Append(issued, Call("picks", event.teamId, currentGW'))
            /\ fetches' = [ fetches EXCEPT !["picks"] =
                              [ state |-> "pending", outcome |-> "none", body |-> ErrorBody ] ]
            /\ pc' = "picks"
            /\ UNCHANGED response
       ELSE /\ response' = Failure
            /\ pc' = "done"
            /\ UNCHANGED << currentGW, issued, fetches >>
    /\ UNCHANGED << event, picksData, playersMap, teamFixtures, squad, bank,
                    transfers, captains, insights >>

\* line 55 rejects; the catch of lines 128-138
PicksRejected ==
    /\ pc = "picks"
    /\ fetches["picks"].state = "rejected"
    /\ response' = Failure
    /\ pc' = "done"
    /\ UNCHANGED << event, fetches, issued, bootstrapData, teamData, fixturesData,
                    picksData, currentGW, playersMap, teamFixtures, squad, bank,
                    transfers, captains, insights >>

\* lines 55-126: the picks arrive and the analysis runs to the 200 response,
\* or a TypeError (allFixtures.filter on an object, picksData.picks.map on
\* undefined, player.team_code on undefined) reaches the catch
Analyze ==
    /\ pc = "picks"
    /\ fetches["picks"].state = "resolved"
    /\ picksData' = fetches["picks"].body
    /\ playersMap' = BuildPlayersMap(bootstrapData.elements, bootstrapData.teams)
    /\ pc' = "done"
    /\ IF fixturesData.shape # "expected"
       THEN /\ response' = Failure
            /\ UNCHANGED << teamFixtures, squad, bank, transfers, captains, insights >>
       ELSE /\ teamFixtures' = getNextFixtures(fixturesData.list, currentGW,
                                               MapFromList(bootstrapData.teams))
            /\ IF picksData'.shape # "expected" \/ AnalyzeThrows(picksData'.picks, playersMap')
               THEN /\ response' = Failure
                    /\ UNCHANGED << squad, bank, transfers, captains, insights >>
               ELSE /\ squad' = AnalyzeSquad(picksData'.picks, playersMap', teamFixtures')
                    /\ bank' = BankOf(teamData)
                    /\ transfers' = findTransferOpportunities(squad', playersMap',
                                                              teamFixtures', bank')
                    /\ captains' = getCaptainRecommendations(squad', teamFixtures')
                    /\ insights' = generateInsights(squad', transfers', TeamValue(teamData))
                    /\ response' =
                          [ statusCode |-> 200,
                            body |-> [ teamValue |-> TeamValue(teamData).last_deadline_value,
                                       bank |-> bank',
                                       currentGW |-> currentGW,
                                       squad |-> squad',
                                       transfers |-> transfers',
                                       captains |-> captains',
                                       insights |-> insights' ] ]
    /\ UNCHANGED << event, fetches, issued, bootstrapData, teamData, fixturesData,
                    currentGW >>

Next ==
    \/ Preflight
    \/ MissingTeamId
    \/ StartBatch
    \/ \E api \in Apis : Settle(api)
    \/ BatchRejected
    \/ BatchResolved
    \/ PicksRejected
    \/ Analyze

Spec == Init /\ [][Next]_vars

-----------------------------------------------------------------------------
(* The helpers called on their own, on inputs drawn from bounded sets *)

SeqsUpTo(S, n) == UNION { [ 1..k -> S ] : k \in 0..n }

\* the handler's own variables while a helper is called on its own
NoRequest ==
    /\ event = [ httpMethod |-> "GET", teamId |-> Str("123456") ]
    /\ fetches = [ api \in Apis |-> Idle ]
    /\ issued = << >>
    /\ bootstrapData = None
    /\ teamData = None
    /\ picksData = None
    /\ response = None

\* the projection of a four-gameweek schedule seen from gameweek 1: ARS has
\* hard fixtures, AVL easy ones, BOU none
SampleTeamFixtures == getNextFixtures(Season(4), 1, MapFromList(Teams))

(* getNextFixtures *)

\* A fixture outside the regular schedule: unscheduled (event 0), at either
\* end of the window or beyond it; its two ratings differ.
ExtraFixtures ==
    { [ event |-> e, team_h |-> m[1], team_a |-> m[2],
        team_h_difficulty |-> 3, team_a_difficulty |-> 1 ] :
      e \in { 0, 1, 5, 10, 11 }, m \in { << 1, 3 >>, << 3, 2 >> } }

InitFixtures ==
    /\ pc = "call"
    /\ \E r \in 0..MaxSeason, extras \in SeqsUpTo(ExtraFixtures, MaxExtra) :
          fixturesData = [ shape |-> "expected", list |-> extras \o Season(r) ]
    /\ currentGW \in { 1, 2 }
    /\ teamFixtures = None
    /\ playersMap = None
    /\ squad = None
    /\ bank = JsNaN
    /\ transfers = None
    /\ captains = None
    /\ insights = None
    /\ NoRequest

CallGetNextFixtures ==
    /\ pc = "call"
    /\ teamFixtures' = getNextFixtures(fixturesData.list, currentGW, MapFromList(Teams))
    /\ pc' = "returned"
    /\ UNCHANGED << event, fetches, issued, bootstrapData, teamData, fixturesData,
                    picksData, currentGW, playersMap, squad, bank, transfers,
                    captains, insights, response >>

SpecFixtures == InitFixtures /\ [][CallGetNextFixtures]_vars

(* findTransferOpportunities *)

\* an analysed squad member as the handler builds it, with the average
\* difficulty (tenths) given
Member(id, team, elementType, cost, form, avg) ==
    [ id |-> id, name |-> id, team |-> Str(TeamShortName(Teams, team)),
      position |-> getPosition(elementType), price |-> cost, form |-> form,
      fixtures |-> << >>, avgDifficulty |-> avg,
      rating |-> getRating(form, avg * 6),
      ratingClass |-> getRatingClass(form, avg * 6) ]

\* the playersMap entry of a catalogue player
PoolPlayer(id, team, elementType, cost, form) ==
    [ Element(id, team, elementType, cost, form)
        EXCEPT !.team = Str(TeamShortName(Teams, team)) ]

\* what a squad member of the transfer suggester can be: form, average
\* difficulty and position (the function is given every average, whatever
\* the squad analyzer computes)
TransferProfiles ==
    { [ form |-> 10, avg |-> 30, element_type |-> 3 ],
      [ form |-> 10, avg |-> 30, element_type |-> 4 ],
      [ form |-> 25, avg |-> 30, element_type |-> 3 ],
      [ form |-> 25, avg |-> 40, element_type |-> 4 ],
      [ form |-> 40, avg |-> 40, element_type |-> 3 ],
      [ form |-> 40, avg |-> 30, element_type |-> 4 ] }

\* the players outside the squad: 101 in top form at 4.9, within reach of a
\* 4.6 squad member only with money in the bank, and 102 at 4.5
Candidates ==
    { << PoolPlayer(101, 2, et, 49, 60), PoolPlayer(102, 3, 3, 45, form) >> :
      et \in { 3, 4 }, form \in { 20, 45 } }

InitTransfers ==
    /\ pc = "call"
    /\ \E ps \in SeqsUpTo(TransferProfiles, MaxSquad), cs \in Candidates :
          /\ squad = [ i \in 1..Len(ps) |->
                         Member(i, 1, ps[i].element_type, 46, ps[i].form, ps[i].avg) ]
          /\ playersMap = [ i \in 1..Len(ps) |->
                              PoolPlayer(i, 1, ps[i].element_type, 46, ps[i].form) ] \o cs
    /\ teamFixtures = SampleTeamFixtures
    /\ bank \in { JsNum(0), JsNum(3), JsNum(5) }
    /\ transfers = None
    /\ fixturesData = None
    /\ currentGW = 1
    /\ captains = None
    /\ insights = None
    /\ NoRequest

CallFindTransferOpportunities ==
    /\ pc = "call"
    /\ transfers' = findTransferOpportunities(squad, playersMap, teamFixtures, bank)
    /\ pc' = "returned"
    /\ UNCHANGED << event, fetches, issued, bootstrapData, teamData, fixturesData,
                    picksData, currentGW, playersMap, teamFixtures, squad, bank,
                    captains, insights, response >>

SpecTransfers == InitTransfers /\ [][CallFindTransferOpportunities]_vars

(* getCaptainRecommendations *)

\* what a squad member of the captaincy ranker can be: form (tenths; below
\* zero for a player who has lost points) and team
CaptainProfiles ==
    { [ form |-> f, team |-> tm ] : f \in { -5, 10, 15, 80 }, tm \in { 1, 2 } }
    \cup { [ form |-> -5, team |-> 3 ] }

InitCaptains ==
    /\ pc = "call"
    /\ \E ps \in SeqsUpTo(CaptainProfiles, MaxSquad) :
          squad = [ i \in 1..Len(ps) |-> Member(i, ps[i].team, 3, 50, ps[i].form, 30) ]
    /\ teamFixtures = SampleTeamFixtures
    /\ captains = None
    /\ playersMap = None
    /\ bank = JsNaN
    /\ transfers = None
    /\ fixturesData = None
    /\ currentGW = 1
    /\ insights = None
    /\ NoRequest

CallGetCaptainRecommendations ==
    /\ pc = "call"
    /\ captains' = getCaptainRecommendations(squad, teamFixtures)
    /\ pc' = "returned"
    /\ UNCHANGED << event, fetches, issued, bootstrapData, teamData, fixturesData,
                    picksData, currentGW, playersMap, teamFixtures, squad, bank,
                    transfers, insights, response >>

SpecCaptains == InitCaptains /\ [][CallGetCaptainRecommendations]_vars

(* generateInsights *)

\* A squad of nEasy members with easy fixtures (2.0), then nHard with hard
\* ones (4.0), then nOther in between (3.0); the first nPoor of them are out
\* of form (1.0), the others in form (5.0).
InsightSquad(nEasy, nHard, nOther, nPoor) ==
    [ i \in 1..(nEasy + nHard + nOther) |->
        Member(i, 1, 3, 50,
               IF i <= nPoor THEN 10 ELSE 50,
               IF i <= nEasy THEN 20 ELSE IF i <= nEasy + nHard THEN 40 ELSE 30) ]

\* transfer lists as findTransferOpportunities returns them: at most two pairs
SampleTransfers ==
    LET out(i) == Member(i, 1, 3, 46, 10, 30)
        in(i) == [ id |-> 100 + i, web_name |-> 100 + i, team |-> Str("AVL"),
                   form |-> 60, now_cost |-> 45, avgDifficulty |-> 120,
                   fixtures |-> << >> ]
    IN  [ i \in 1..TopTransfers |-> Transfer(out(i), in(i)) ]

InitInsights ==
    /\ pc = "call"
    /\ \E nEasy \in 0..MaxCount, nHard \in 0..MaxCount, nOther \in 0..1, nPoor \in 0..3 :
          /\ nPoor <= nEasy + nHard + nOther
          /\ squad = InsightSquad(nEasy, nHard, nOther, nPoor)
    /\ \E k \in 0..TopTransfers : transfers = Take(SampleTransfers, k)
    /\ teamData \in { [ last_deadline_value |-> v ] : v \in { JsNum(1000), JsNum(1030), JsNaN } }
    /\ insights = None
    /\ event = [ httpMethod |-> "GET", teamId |-> Str("123456") ]
    /\ fetches = [ api \in Apis |-> Idle ]
    /\ issued = << >>
    /\ bootstrapData = None
    /\ fixturesData = None
    /\ picksData = None
    /\ currentGW = 1
    /\ playersMap = None
    /\ teamFixtures = None
    /\ bank = JsNaN
    /\ captains = None
    /\ response = None

CallGenerateInsights ==
    /\ pc = "call"
    /\ insights' = generateInsights(squad, transfers, teamData)
    /\ pc' = "returned"
    /\ UNCHANGED << event, fetches, issued, bootstrapData, teamData, fixturesData,
                    picksData, currentGW, playersMap, teamFixtures, squad, bank,
                    transfers, captains, response >>

SpecInsights == InitInsights /\ [][CallGenerateInsights]_vars

-----------------------------------------------------------------------------
(* Properties of the handler, checked under Spec *)

Responded == pc = "done"

\* a fetch that ended in a network error, an unparsable body or a non-success status
FetchFailed(api) == fetches[api].outcome \in Outcomes \ { "ok" }

PicksIssued == \E i \in 1..Len(issued) : issued[i].api = "picks"

\* C1: a GET request whose teamId is missing or empty is answered 400 with a
\* body that has an "error" field, and no upstream fetch is ever issued for it.
C1_MissingTeamIdIs400 ==
    (event.httpMethod = "GET" /\ event.teamId \in { Undefined, Str("") }) =>
        /\ issued = << >>
        /\ \A api \in Apis : fetches[api].state = "idle"
        /\ Responded => /\ response.statusCode = 400
                        /\ "error" \in DOMAIN response.body

\* C1's case: a GET request with an empty teamId has been answered
C1_Witness ==
    /\ Responded
    /\ event.httpMethod = "GET"
    /\ event.teamId = Str("")
    /\ response.statusCode = 400

\* C2: with a teamId present, a failure of any of the four fetches (network
\* error, unparsable body, non-success status) ends in the 500 response with a
\* message, never in a 200 response.
C2_FailedFetchIs500 ==
    (Responded /\ event.httpMethod = "GET" /\ ~(event.teamId \in { Undefined, Str("") })
        /\ \E api \in Apis : FetchFailed(api)) =>
        /\ response.statusCode = 500
        /\ "message" \in DOMAIN response.body

\* the mean of the first five projected fixtures of a squad member's own
\* team, in tenths as the squad shows it; 3.0 without fixtures
WindowMean(member) ==
    LET own == FixturesFor(teamFixtures, member.team, SquadFixtures)
    IN  IF Len(own) = 0 THEN 30 ELSE ToFixed1((60 * SumDifficulty(own)) \div Len(own))

\* C3: each squad member's average difficulty is the mean difficulty of the
\* first 5 fixtures projected for the member's own team, and the neutral 3
\* when that team has no projected fixture.
C3_AvgDifficultyIsWindowMean ==
    (Responded /\ response.statusCode = 200) =>
        \A i \in 1..Len(squad) : squad[i].avgDifficulty = WindowMean(squad[i])

\* C7: in a 15-pick squad a player with form 1.0 whose team's next fixtures
\* average 4.5 is rated "Poor", and for every cheaper non-squad player of his
\* position with form 6.0 and easier fixtures the transfer list holds the pair,
\* with projected points (6.0 - 1.0) * 5 = 25.0.
C7_PoorPlayerIsReplaced ==
    (Responded /\ response.statusCode = 200 /\ Len(squad) = 15) =>
        \A i \in 1..Len(squad) :
            LET own == FixturesFor(teamFixtures, squad[i].team, SquadFixtures)
                better(p) ==
                    /\ getPosition(p.element_type) = squad[i].position
                    /\ p.now_cost < squad[i].price
                    /\ p.form = 60
                    /\ \A j \in 1..Len(squad) : squad[j].id # p.id
                    /\ AvgDifficulty(FixturesFor(teamFixtures, p.team, SquadFixtures)) < 270
            IN  (squad[i].form = 10 /\ Len(own) > 0 /\ AvgDifficulty(own) = 270) =>
                    /\ squad[i].rating = "Poor"
                    /\ \A q \in 1..Len(playersMap) :
                          better(playersMap[q]) =>
                              \E k \in 1..Len(transfers) :
                                  /\ transfers[k].playerOut.name = squad[i].name
                                  /\ transfers[k].playerIn.name = playersMap[q].web_name
                                  /\ transfers[k].projectedPoints = 250

\* C10: the picks fetch is issued only once the three first-batch fetches
\* have resolved, for the gameweek read from the bootstrap response (the
\* event flagged current, else 1), and never when a first-batch fetch failed.
C10_PicksFetchAfterBatch ==
    /\ PicksIssued =>
          /\ \A api \in FirstBatch : fetches[api].state = "resolved"
          /\ issued[Len(issued)] =
                Call("picks", event.teamId, CurrentGW(fetches["bootstrap"].body.events))
    /\ (\E api \in FirstBatch : FetchFailed(api)) => ~PicksIssued

-----------------------------------------------------------------------------
(* Properties of the helpers, each checked under the specification that calls it *)

Returned == pc = "returned"

\* the squad member a display name stands for
MemberNamed(name) == squad[CHOOSE i \in 1..Len(squad) : squad[i].name = name]

(* findTransferOpportunities, under SpecTransfers *)

\* C4: the incoming player of every recommendation is not in the squad, and
\* his price is at most the outgoing player's price plus the bank.
C4_IncomingIsAffordableOutsider ==
    Returned =>
        \A k \in 1..Len(transfers) :
            /\ \A i \in 1..Len(squad) : squad[i].name # transfers[k].playerIn.name
            /\ ~bank.nan
            /\ transfers[k].playerIn.price <= transfers[k].playerOut.price + bank.v

\* C4's case: a recommendation that spends bank, while a squad member of the
\* outgoing player's position is in better form than he is
C4_Witness ==
    /\ Returned
    /\ \E k \in 1..Len(transfers) :
          /\ transfers[k].playerIn.price > transfers[k].playerOut.price
          /\ \E i \in 1..Len(squad) :
                /\ squad[i].position = MemberNamed(transfers[k].playerOut.name).position
                /\ squad[i].form > transfers[k].playerOut.form

WeakMembers == { i \in 1..Len(squad) : squad[i].form < 30 \/ squad[i].avgDifficulty > 35 }

\* C5: at most 2 recommendations; every outgoing player is a weak squad
\* member (form < 3.0 or average difficulty > 3.5) with fewer than 3 weak
\* members in lower form; the recommendations are in ascending order of the
\* outgoing player's form.
C5_AtMostTwoOfThreeWeakest ==
    Returned =>
        /\ Len(transfers) <= 2
        /\ \A k \in 1..Len(transfers) :
              \E i \in WeakMembers :
                  /\ squad[i].name = transfers[k].playerOut.name
                  /\ Cardinality({ j \in WeakMembers : squad[j].form < squad[i].form }) < 3
        /\ \A k \in 1..Len(transfers), l \in 1..Len(transfers) :
              k < l => transfers[k].playerOut.form <= transfers[l].playerOut.form

\* C5's case: more than 3 weak members, of whom at least 3 have a replacement
\* (a lower-form member of each position has one), and 2 recommendations returned
C5_Witness ==
    /\ Returned
    /\ Cardinality(WeakMembers) > 3
    /\ Len(transfers) = 2
    /\ transfers[1].playerOut.form < transfers[2].playerOut.form
    /\ \E i \in WeakMembers :
          /\ squad[i].form > transfers[2].playerOut.form
          /\ Len(Alternatives(squad[i], squad, playersMap, teamFixtures, bank)) > 0

(* getCaptainRecommendations, under SpecCaptains *)

\* the captain score of the squad member an entry names
EntryScore(entry) == CaptainScore(MemberNamed(entry.name[1]), teamFixtures)

\* C6 as stated: exactly min(3, squad size) entries, strictly descending by
\* captain score, every confidence in [0, 95].
C6_ThreeStrictlyDescendingClamped ==
    Returned =>
        /\ Len(captains) = Min(3, Len(squad))
        /\ \A i \in 1..Len(captains), j \in 1..Len(captains) :
              i < j => EntryScore(captains[i]) > EntryScore(captains[j])
        /\ \A i \in 1..Len(captains) :
              captains[i].confidence >= 0 /\ captains[i].confidence <= 95

\* C6 as amended: exactly min(3, squad size) entries, in non-increasing order
\* of captain score (equal scores may follow each other), every confidence at
\* most 95, and at least 0 whenever the player's form is not negative.
C6_ThreeDescendingCapped ==
    Returned =>
        /\ Len(captains) = Min(3, Len(squad))
        /\ \A i \in 1..Len(captains), j \in 1..Len(captains) :
              i < j => EntryScore(captains[i]) >= EntryScore(captains[j])
        /\ \A i \in 1..Len(captains) :
              /\ captains[i].confidence <= 95
              /\ MemberNamed(captains[i].name[1]).form >= 0 => captains[i].confidence >= 0

\* C6's case: more squad members than entries, two entries of equal score, a
\* capped confidence and a negative one
C6_Witness ==
    /\ Returned
    /\ Len(squad) > 3
    /\ Len(captains) = 3
    /\ EntryScore(captains[1]) > EntryScore(captains[2])
    /\ EntryScore(captains[2]) = EntryScore(captains[3])
    /\ captains[1].confidence = 95
    /\ \E i \in 1..Len(squad) : Confidence(CaptainScore(squad[i], teamFixtures)) < 0

(* getNextFixtures, under SpecFixtures *)

\* the fixtures of the list in which a team plays within [currentGW, currentGW + 8]
Qualifying(tm) ==
    { i \in 1..Len(fixturesData.list) :
        /\ fixturesData.list[i].event >= currentGW
        /\ fixturesData.list[i].event <= currentGW + 8
        /\ (fixturesData.list[i].team_h = tm \/ fixturesData.list[i].team_a = tm) }

\* a projected fixture is the fixture f seen from team tm: its gameweek, the
\* team's own rating, the home flag, the opponent's short code with '@' when away
Projects(e, f, tm) ==
    /\ e.gameweek = f.event
    /\ e.isHome = (f.team_h = tm)
    /\ e.difficulty = (IF f.team_h = tm THEN f.team_h_difficulty ELSE f.team_a_difficulty)
    /\ e.opponent = (IF f.team_h = tm THEN << Teams[f.team_a].short_name >>
                                      ELSE << "@", Teams[f.team_h].short_name >>)

\* what holds of a team's projection whether or not it is cut short: sorted
\* by gameweek, and every entry a qualifying fixture seen from the team
SortedProjection(tm, r) ==
    /\ \A i \in 1..Len(r), j \in 1..Len(r) : i < j => r[i].gameweek <= r[j].gameweek
    /\ \A i \in 1..Len(r) :
          \E q \in Qualifying(tm) : Projects(r[i], fixturesData.list[q], tm)

\* the entries of r, and the qualifying fixtures of tm, in gameweek g
EntriesIn(r, g) == Cardinality({ i \in 1..Len(r) : r[i].gameweek = g })
QualifyingIn(tm, g) == Cardinality({ q \in Qualifying(tm) : fixturesData.list[q].event = g })

\* C8 as stated: every fixture of the team in [currentGW, currentGW + 8] is
\* returned and none outside it, sorted by gameweek, each with the team's own
\* rating, the home flag and the opponent's code, '@' exactly when away.
C8_EveryFixtureInWindow ==
    Returned =>
        \A tm \in 1..Len(Teams) :
            LET r == teamFixtures[Str(Teams[tm].short_name)]
            IN  /\ SortedProjection(tm, r)
                /\ \A g \in currentGW..(currentGW + 8) : EntriesIn(r, g) = QualifyingIn(tm, g)

\* C8 as amended: the first 8, by gameweek, of the team's fixtures in
\* [currentGW, currentGW + 8] are returned (all of them when there are at most
\* 8) and none outside it, sorted by gameweek, each with the team's own
\* rating, the home flag and the opponent's code, '@' exactly when away.
C8_FirstEightInWindow ==
    Returned =>
        \A tm \in 1..Len(Teams) :
            LET r == teamFixtures[Str(Teams[tm].short_name)]
            IN  /\ SortedProjection(tm, r)
                /\ Len(r) = Min(8, Cardinality(Qualifying(tm)))
                /\ \A g \in currentGW..(currentGW + 8) :
                      /\ EntriesIn(r, g) <= QualifyingIn(tm, g)
                      /\ (Len(r) < 8 \/ g < r[Len(r)].gameweek) =>
                            EntriesIn(r, g) = QualifyingIn(tm, g)

\* C8's case: a team with more than 8 fixtures in the window, one of them in
\* gameweek currentGW + 8, another outside the window; its projection has
\* home and away entries
C8_Witness ==
    /\ Returned
    /\ Cardinality(Qualifying(1)) > 8
    /\ QualifyingIn(1, currentGW + 8) > 0
    /\ \E i \in 1..Len(fixturesData.list) :
          fixturesData.list[i].team_h = 1 /\ fixturesData.list[i].event > currentGW + 8
    /\ LET r == teamFixtures[Str("ARS")]
       IN  /\ Len(r) = 8
           /\ \E i \in 1..Len(r) : r[i].isHome
           /\ \E i \in 1..Len(r) : ~r[i].isHome /\ r[i].opponent[1] = "@"

(* generateInsights, under SpecInsights *)

HasInsight(title) == \E i \in 1..Len(insights) : insights[i].title = title

\* C9: the insight list is not empty; its last entry is "Team Looking Solid"
\* exactly when there are no transfers and "Transfer Opportunities" otherwise;
\* the two never both appear.
C9_LastInsightTellsTransfers ==
    Returned =>
        /\ Len(insights) > 0
        /\ (insights[Len(insights)].title = "Team Looking Solid") <=> (Len(transfers) = 0)
        /\ Len(transfers) > 0 => insights[Len(insights)].title = "Transfer Opportunities"
        /\ ~(HasInsight("Team Looking Solid") /\ HasInsight("Transfer Opportunities"))

\* C9's case: no transfers, and other insights before the last
C9_Witness ==
    /\ Returned
    /\ Len(transfers) = 0
    /\ Len(insights) > 1
    /\ insights[Len(insights)].title = "Team Looking Solid"

\* the counts and the valuation the thresholds are about, read off the inputs
EasyCount == Cardinality({ i \in 1..Len(squad) : squad[i].avgDifficulty < 25 })

HardCount == Cardinality({ i \in 1..Len(squad) : squad[i].avgDifficulty > 35 })

PoorFormCount == Cardinality({ i \in 1..Len(squad) : squad[i].form < 20 })

ValueAtLeast103 ==
    /\ ~teamData.last_deadline_value.nan
    /\ teamData.last_deadline_value.v >= 1030

\* the three checks C11 and its amendment agree on: poor form, team value,
\* and the easy-fixture message
OtherChecksFollowOwnThreshold ==
    /\ HasInsight("Strong Fixture Run") <=> (EasyCount >= 5)
    /\ HasInsight("Form Concerns") <=> (PoorFormCount >= 3)
    /\ HasInsight("Strong Team Value") <=> ValueAtLeast103

\* C11: each threshold check (easy-fixture count >= 5, hard-fixture count
\* >= 5, poor-form count >= 3, team value >= 103) appends its message if and
\* only if its own threshold holds, whatever the other checks do; only the
\* last two messages exclude each other.
C11_EveryCheckIndependent ==
    Returned =>
        /\ OtherChecksFollowOwnThreshold
        /\ HasInsight("Difficult Fixtures Ahead") <=> (HardCount >= 5)

\* C11 as amended: the hard-fixture message is appended if and only if the
\* hard-fixture count is at least 5 and the easy-fixture count is below 5, so
\* the two fixture messages exclude each other as the last two do; the
\* easy-fixture, poor-form and team-value messages each follow their own
\* threshold alone.
C11_HardFixturesYieldToEasy ==
    Returned =>
        /\ OtherChecksFollowOwnThreshold
        /\ HasInsight("Difficult Fixtures Ahead") <=> (HardCount >= 5 /\ EasyCount < 5)
        /\ ~(HasInsight("Strong Fixture Run") /\ HasInsight("Difficult Fixtures Ahead"))

\* C11's case: both fixture thresholds hold at once, with the form and value
\* thresholds, and only the easy-fixture message of the two is in the list
C11_Witness ==
    /\ Returned
    /\ EasyCount >= 5
    /\ HardCount >= 5
    /\ PoorFormCount >= 3
    /\ ValueAtLeast103
    /\ HasInsight("Strong Fixture Run")
    /\ ~HasInsight("Difficult Fixtures Ahead")
    /\ HasInsight("Form Concerns")
    /\ HasInsight("Strong Team Value")

====
